---- MODULE Spec2Model ----
(***************************************************************************)
(* The Inoculator RTL automation, in three specifications:                 *)
(*   Spec        the completion trackers, one behaviour being one call of  *)
(*               one tracker on one list of projects:                      *)
(*                 generateRTL.py  run_generate_rtl,                       *)
(*                                 run_generate_rtl_with_CAM               *)
(*                 simulateRTL.py  run_simulate_rtl                        *)
(*                 exportRTL.py    run_export_rtl                          *)
(*   SpecCalls   one call of a prober, of trigger_export or of its choice  *)
(*               of the export flags                                       *)
(*   SpecRunner  one run of main() of main_runner.py                       *)
(* The external web application is the environment: what a trigger or a    *)
(* probe sees on the page is an input drawn afresh at every call.          *)
(***************************************************************************)
EXTENDS Integers, Sequences, FiniteSets, TLC

VARIABLES
    kind,             \* which tracker runs
    batch,            \* the Jobs in batch order: <<project index, status column>>
    pc,               \* position of the tracker in its code
    idx,              \* position of the running for-loop (1-based)
    started,          \* 'started on' / createdAt_<type> cell of every Job
    status,           \* STATUS / <type> cell of every Job
    completed,        \* 'completed on' cell of every Job (generate, simulate)
    retry_count,      \* retry_count of run_simulate_rtl and run_export_rtl
    all_done,         \* all_done / all_exports_done
    pending_exports,  \* pending_exports of run_export_rtl
    cycle,            \* history: passes of the probe for-loop begun so far
    sleeps,           \* history: inter-retry sleeps taken so far
    warm,             \* history: warm-up sleeps taken so far
    probed,           \* history: Jobs probed in the current pass, in call order
    last,             \* history: the latest probe call and what it returned
    slept,            \* history: seconds spent in time.sleep by the tracker
    triggers,         \* history: the Jobs whose trigger was called, in call order
    listing,          \* the createdAt texts of a project's export listing, in page order
    call,             \* one application of a trigger, a prober or a helper of theirs
    run               \* the state of main() of main_runner.py

vars == <<kind, batch, pc, idx, started, status, completed, retry_count,
          all_done, pending_exports, cycle, sleeps, warm, probed, last, slept,
          triggers, listing, call, run>>

----------------------------------------------------------------------------
(* Bounds of the model *)

MaxProjects == 2
NumTypes == 2
MaxExportJobs == 4
MaxGenCycles == 7
MaxRows == 2
MaxGain == 1

(* Texts a timestamp cell can show, besides the empty text *)
Stamps == {"ts"}
Texts == Stamps \cup {""}
RowSeqs == {<<>>} \cup {<<a>> : a \in Texts} \cup {<<a, b>> : a, b \in Texts}

----------------------------------------------------------------------------
(* Program constants *)

export_types ==
    <<"Encrypted", "Obfuscated", "Clean", "All 3", "Enc+Clean", "Obs+Clean", "Enc+Obs">>

max_retries == 6

(* wait_for_new_row(page, previous_created_ats, timeout=30) *)
timeout == 30

(* variant: export warms up as long as simulate *)
WarmupSeconds_AsSimulate(k) ==
    IF k \in {"simulate", "export"} THEN 900 ELSE 0

(* time.sleep before the first pass of probes: none in the generate trackers *)
WarmupSeconds(k) ==
    IF k = "simulate" THEN 900 ELSE IF k = "export" THEN 1200 ELSE 0

(* time.sleep between two passes of probes *)
RetrySeconds(k) == IF k \in {"simulate", "export"} THEN 300 ELSE 30

None == "<None>"

Truthy(x) == x \notin {"", None}

GenKinds == {"generate", "generate_cam"}
Kinds == GenKinds \cup {"simulate", "export"}

Terminal == {"Passed", "Failed", "Incomplete"}
Finished == {"Passed", "Failed"}

----------------------------------------------------------------------------
(* The batch: one Job per project (generate, simulate), one Job per project *)
(* and export type (export), in the order the for-loops visit them.         *)

Batch(k, n, m) ==
    IF k = "export"
    THEN [i \in 1..(n * m) |-> <<((i - 1) \div m) + 1, export_types[((i - 1) % m) + 1]>>]
    ELSE [i \in 1..n |-> <<i, "STATUS">>]

Jobs == {batch[i] : i \in 1..Len(batch)}

----------------------------------------------------------------------------
(* Triggers.  An observation o says which call of the trigger raises       *)
(* ("none": no call does) and what the page shows.                         *)

(* "action": one of the page calls in the trigger's outer try raises *)
GenTriggerSteps == {"action"}

CamTriggerSteps == GenTriggerSteps \cup {"checkbox"}

SimTriggerSteps == {"action"}

ExportTriggerSteps == {"action", "wait_for_new_row"}

TriggerObs(steps) ==
    {[throws |-> s, created_text |-> ""] : s \in steps \cup {"inner_text"}}
    \cup {[throws |-> "none", created_text |-> t] : t \in Texts}

trigger_generate_design(o) ==
    IF o.throws \in GenTriggerSteps THEN ""
    ELSE IF o.throws = "inner_text" THEN ""
    ELSE o.created_text

trigger_generate_design_with_CAM(o) ==
    IF o.throws = "checkbox" THEN ""
    ELSE IF o.throws \in GenTriggerSteps THEN ""
    ELSE IF o.throws = "inner_text" THEN ""
    ELSE o.created_text

trigger_simulation(o) ==
    IF o.throws \in SimTriggerSteps THEN ""
    ELSE IF o.throws = "inner_text" THEN ""
    ELSE o.created_text

(* rows: the createdAt texts met while polling, in the order met *)
RECURSIVE wait_for_new_row(_, _)
wait_for_new_row(rows, previous_created_ats) ==
    IF rows = <<>> THEN None
    ELSE IF Head(rows) \notin previous_created_ats THEN Head(rows)
    ELSE wait_for_new_row(Tail(rows), previous_created_ats)

ExportTriggerObs ==
    {[throws |-> s, before |-> <<>>, after |-> <<>>] : s \in ExportTriggerSteps}
    \cup {[throws |-> "none", before |-> b, after |-> a] : b \in RowSeqs, a \in RowSeqs}

(* variant: an export trigger that takes no snapshot *)
trigger_export_NoSnapshot(o) ==
    IF o.throws # "none" THEN None
    ELSE wait_for_new_row(o.after, {})

trigger_export(o) ==
    IF o.throws # "none" THEN None
    ELSE LET previous_created_ats == {o.before[i] : i \in 1..Len(o.before)}
         IN  wait_for_new_row(o.after, previous_created_ats)

----------------------------------------------------------------------------
(* Probers.  An observation says which call raises and what the looked-up  *)
(* row shows.  A result is <<updated_at, status>>.                          *)

(* "action": one of the page calls in the prober's outer try raises *)
GenProbeSteps == {"action"}

SimProbeSteps == {"action"}

ExportProbeSteps == {"action"}

NoRow == [row |-> FALSE, updated_cell |-> FALSE, updated_text |-> "",
          status_cell |-> FALSE, success |-> FALSE, failed |-> FALSE,
          progress |-> FALSE]

(* what a row can show *)
RowViews ==
    {NoRow} \cup
    {[row |-> TRUE, updated_cell |-> c, updated_text |-> t, status_cell |-> sc,
      success |-> s, failed |-> f, progress |-> p] :
        c \in BOOLEAN, t \in Texts, sc \in BOOLEAN, s \in BOOLEAN, f \in BOOLEAN,
        p \in BOOLEAN}

GenRowViews ==
    {v \in RowViews : (~v.updated_cell => v.updated_text = "")
                      /\ v.status_cell = v.row /\ ~v.progress}

SimRowViews ==
    {v \in RowViews : (~v.updated_cell => v.updated_text = "")
                      /\ (~v.status_cell => ~(v.success \/ v.failed \/ v.progress))}

ExportRowViews ==
    {v \in RowViews : ~v.updated_cell /\ v.updated_text = ""
                      /\ (~v.status_cell => ~(v.success \/ v.failed \/ v.progress))}

ProbeObs(steps, views, swallowed) ==
    {[throws |-> s, rows_timeout |-> FALSE, view |-> NoRow] : s \in steps}
    \cup {[throws |-> "none", rows_timeout |-> w, view |-> v] :
             w \in swallowed, v \in views}

GenProbeObs == ProbeObs(GenProbeSteps, GenRowViews, BOOLEAN)
SimProbeObs == ProbeObs(SimProbeSteps, SimRowViews, {FALSE})
ExportProbeObs == ProbeObs(ExportProbeSteps, ExportRowViews, {FALSE})

check_generate_completion(o) ==
    IF o.throws # "none" THEN <<"", "Failed">>
    ELSE LET v == o.view
             updated_at == IF v.row /\ v.updated_cell THEN v.updated_text ELSE ""
             st == IF ~v.row THEN "Failed"
                   ELSE IF v.failed THEN "Failed"
                   ELSE IF v.success THEN "Passed"
                   ELSE "Pending"
         IN  <<updated_at, st>>

check_simulation_completion(o) ==
    IF o.throws # "none" THEN <<"", "Failed">>
    ELSE LET v == o.view
             updated_at == IF v.row /\ v.updated_cell THEN v.updated_text ELSE ""
             st == IF ~v.row THEN "Pending"
                   ELSE IF ~v.status_cell THEN "Pending"
                   ELSE IF v.success THEN "Passed"
                   ELSE IF v.failed THEN "Failed"
                   ELSE IF v.progress THEN "Processing"
                   ELSE "Pending"
         IN  <<updated_at, st>>

(* variant: an export prober whose except clause reports Pending *)
check_export_completion_Pending(o) ==
    IF o.throws # "none" THEN "Pending"
    ELSE LET v == o.view
         IN  IF ~v.row THEN "Pending"
             ELSE IF ~v.status_cell THEN "Pending"
             ELSE IF v.success THEN "Passed"
             ELSE IF v.failed THEN "Failed"
             ELSE IF v.progress THEN "Processing"
             ELSE "Pending"

check_export_completion(o) ==
    IF o.throws # "none" THEN "Failed"
    ELSE LET v == o.view
         IN  IF ~v.row THEN "Pending"
             ELSE IF ~v.status_cell THEN "Pending"
             ELSE IF v.success THEN "Passed"
             ELSE IF v.failed THEN "Failed"
             ELSE IF v.progress THEN "Processing"
             ELSE "Pending"

(* did any call of the probe raise: "outer" reached the prober's own except *)
(* clause, "swallowed" was caught inside and the check went on              *)
Threw(o) ==
    IF o.throws # "none" THEN "outer"
    ELSE IF o.rows_timeout THEN "swallowed"
    ELSE "none"

NoProbe == [job |-> <<0, "">>, threw |-> "none", updated_at |-> "", status |-> ""]

----------------------------------------------------------------------------
(* The trackers' tests and their marking of one status cell *)

(* variant: an early-stop test that never sees a Job as done *)
NotDone_Always(updated_at, st) == TRUE

(* generate, simulate: if not updated_at or status not in ["Passed", "Failed"] *)
NotDone(updated_at, st) == updated_at = "" \/ st \notin {"Passed", "Failed"}

(* variant: a Failed export keeps the pass from being all done *)
ExportNotDone_FailedToo(st) == st \in {"Processing", "Pending", "Failed"}

(* export: if status in ["Processing", "Pending"] *)
ExportNotDone(st) == st \in {"Processing", "Pending"}

(* variant: a marking that spares only Passed *)
SimMarkCell_SparePassed(st) == IF st # "Passed" THEN "Incomplete" ELSE st

(* simulate: if STATUS not in ["Passed", "Failed"]: STATUS = "Incomplete" *)
SimMarkCell(st) == IF st \notin {"Passed", "Failed"} THEN "Incomplete" ELSE st

(* variant: a marking that forgets the Processing cells *)
ExportMarkCell_PendingOnly(st) == IF st = "Pending" THEN "Incomplete" ELSE st

(* export: if cell in ["Pending", "Processing"]: cell = "Incomplete" *)
ExportMarkCell(st) == IF st \in {"Pending", "Processing"} THEN "Incomplete" ELSE st

(* no helper applied, main() not entered: the values of call and run *)
(* while a tracker is followed on its own                             *)
NoCall == [fn |-> "", input |-> <<>>, returned |-> FALSE, result |-> <<>>]

NoRun == [pc |-> ""]

----------------------------------------------------------------------------
Init ==
    \E k \in Kinds, n \in 0..MaxProjects, m \in 1..NumTypes :
        /\ k # "export" => m = 1
        /\ k = "export" => n * m <= MaxExportJobs
        /\ kind = k
        /\ batch = Batch(k, n, m)
        /\ pc = "trigger"
        /\ idx = 1
        /\ started = [j \in {Batch(k, n, m)[i] : i \in 1..Len(Batch(k, n, m))} |-> ""]
        /\ status = [j \in {Batch(k, n, m)[i] : i \in 1..Len(Batch(k, n, m))} |-> ""]
        /\ completed = [j \in {Batch(k, n, m)[i] : i \in 1..Len(Batch(k, n, m))} |-> ""]
        /\ retry_count = 0
        /\ all_done = FALSE
        /\ pending_exports = <<>>
        /\ cycle = 0
        /\ sleeps = 0
        /\ warm = 0
        /\ probed = <<>>
        /\ last = NoProbe
        /\ slept = 0
        /\ triggers = <<>>
        /\ listing = <<>>
        /\ call = NoCall
        /\ run = NoRun


----------------------------------------------------------------------------
(* run_generate_rtl and run_generate_rtl_with_CAM (same code, other trigger) *)

GenTriggerResult(k, o) ==
    IF k = "generate" THEN trigger_generate_design(o)
    ELSE trigger_generate_design_with_CAM(o)

(* Every iteration of the two for-loops ends with page.wait_for_timeout,    *)
(* outside every try.  The model cuts the steps just before that call: a    *)
(* state with idx > 1 is about to make the call that ends iteration idx-1.  *)
(* Either it returns and the tracker goes on (GenTrigger, GenTriggersDone,  *)
(* GenProbe, GenEndCycle), or it raises and the exception leaves the        *)
(* tracker (GenPageRaises).                                                 *)
GenPageRaises ==
    /\ kind \in GenKinds
    /\ pc \in {"trigger", "probe"}
    /\ idx > 1
    /\ pc' = "raised"
    /\ UNCHANGED <<listing, call, run, slept, triggers, kind, batch, idx, started, status, completed, retry_count,
                   all_done, pending_exports, cycle, sleeps, warm, probed, last>>

(* one iteration of the first pass *)
GenTrigger ==
    /\ kind \in GenKinds
    /\ pc = "trigger"
    /\ idx <= Len(batch)
    /\ \E o \in TriggerObs(IF kind = "generate" THEN GenTriggerSteps ELSE CamTriggerSteps) :
          started' = [started EXCEPT ![batch[idx]] = GenTriggerResult(kind, o)]
    /\ idx' = idx + 1
    /\ triggers' = Append(triggers, batch[idx])
    /\ UNCHANGED <<listing, call, run, slept, kind, batch, pc, status, completed, retry_count, all_done,
                   pending_exports, cycle, sleeps, warm, probed, last>>

(* the first pass is over: the DataFrame is built, no warm-up sleep *)
GenTriggersDone ==
    /\ kind \in GenKinds
    /\ pc = "trigger"
    /\ idx > Len(batch)
    /\ pc' = "loop"
    /\ UNCHANGED <<listing, call, run, slept, triggers, kind, batch, idx, started, status, completed, retry_count,
                   all_done, pending_exports, cycle, sleeps, warm, probed, last>>

(* while True: all_done = True *)
GenLoopHead ==
    /\ kind \in GenKinds
    /\ pc = "loop"
    /\ cycle < MaxGenCycles
    /\ all_done' = TRUE
    /\ idx' = 1
    /\ pc' = "probe"
    /\ cycle' = cycle + 1
    /\ probed' = <<>>
    /\ UNCHANGED <<listing, call, run, slept, triggers, kind, batch, started, status, completed, retry_count,
                   pending_exports, sleeps, warm, last>>

(* one iteration of the check loop: every project, whatever its cells hold *)
GenProbe ==
    /\ kind \in GenKinds
    /\ pc = "probe"
    /\ idx <= Len(batch)
    /\ \E o \in GenProbeObs :
          LET j == batch[idx]
              r == check_generate_completion(o)
              updated_at == r[1]
              st == r[2]
          IN  /\ all_done' = IF NotDone(updated_at, st) THEN FALSE ELSE all_done
              /\ completed' = [completed EXCEPT ![j] = updated_at]
              /\ status' = [status EXCEPT ![j] = st]
              /\ probed' = Append(probed, j)
              /\ last' = [job |-> j, threw |-> Threw(o), updated_at |-> updated_at,
                          status |-> st]
    /\ idx' = idx + 1
    /\ UNCHANGED <<listing, call, run, slept, triggers, kind, batch, pc, started, retry_count, pending_exports, cycle,
                   sleeps, warm>>

(* if all_done: break; the function then returns the DataFrame *)
GenEndCycle ==
    /\ kind \in GenKinds
    /\ pc = "probe"
    /\ idx > Len(batch)
    /\ pc' = IF all_done THEN "done" ELSE "sleep"
    /\ UNCHANGED <<listing, call, run, slept, triggers, kind, batch, idx, started, status, completed, retry_count,
                   all_done, pending_exports, cycle, sleeps, warm, probed, last>>

(* time.sleep(30) *)
GenSleep ==
    /\ kind \in GenKinds
    /\ pc = "sleep"
    /\ sleeps' = sleeps + 1
    /\ pc' = "loop"
    /\ slept' = slept + RetrySeconds(kind)
    /\ UNCHANGED <<listing, call, run, triggers, kind, batch, idx, started, status, completed, retry_count,
                   all_done, pending_exports, cycle, warm, probed, last>>

----------------------------------------------------------------------------
(* run_simulate_rtl *)

(* Every iteration of the two for-loops ends with page.goto and            *)
(* page.wait_for_timeout, outside every try; the steps are cut just before *)
(* these calls, as in the generate tracker.                                *)
SimPageRaises ==
    /\ kind = "simulate"
    /\ pc \in {"trigger", "probe"}
    /\ idx > 1
    /\ pc' = "raised"
    /\ UNCHANGED <<listing, call, run, slept, triggers, kind, batch, idx, started, status, completed, retry_count,
                   all_done, pending_exports, cycle, sleeps, warm, probed, last>>

(* one iteration of the first pass *)
SimTrigger ==
    /\ kind = "simulate"
    /\ pc = "trigger"
    /\ idx <= Len(batch)
    /\ \E o \in TriggerObs(SimTriggerSteps) :
          started' = [started EXCEPT ![batch[idx]] = trigger_simulation(o)]
    /\ idx' = idx + 1
    /\ triggers' = Append(triggers, batch[idx])
    /\ UNCHANGED <<listing, call, run, slept, kind, batch, pc, status, completed, retry_count, all_done,
                   pending_exports, cycle, sleeps, warm, probed, last>>

(* variant: a first pass that is run once more when a trigger returned no key *)
SimTriggersDone_Retry ==
    /\ kind = "simulate"
    /\ pc = "trigger"
    /\ idx > Len(batch)
    /\ IF Len(triggers) = Len(batch) /\ \E j \in Jobs : started[j] = ""
       THEN pc' = pc /\ idx' = 1
       ELSE pc' = "warmup" /\ idx' = idx
    /\ UNCHANGED <<listing, call, run, slept, triggers, kind, batch, started, status, completed,
                   retry_count, all_done, pending_exports, cycle, sleeps, warm, probed,
                   last>>

SimTriggersDone ==
    /\ kind = "simulate"
    /\ pc = "trigger"
    /\ idx > Len(batch)
    /\ pc' = "warmup"
    /\ UNCHANGED <<listing, call, run, slept, triggers, kind, batch, idx, started, status, completed, retry_count,
                   all_done, pending_exports, cycle, sleeps, warm, probed, last>>

(* time.sleep(900) *)
SimWarmup ==
    /\ kind = "simulate"
    /\ pc = "warmup"
    /\ warm' = warm + 1
    /\ pc' = "loop"
    /\ slept' = slept + WarmupSeconds(kind)
    /\ UNCHANGED <<listing, call, run, triggers, kind, batch, idx, started, status, completed, retry_count,
                   all_done, pending_exports, cycle, sleeps, probed, last>>

(* while retry_count < max_retries: all_done = True *)
SimLoopHead ==
    /\ kind = "simulate"
    /\ pc = "loop"
    /\ IF retry_count < max_retries
       THEN /\ all_done' = TRUE
            /\ idx' = 1
            /\ pc' = "probe"
            /\ cycle' = cycle + 1
            /\ probed' = <<>>
       ELSE /\ pc' = "mark"
            /\ UNCHANGED <<all_done, idx, cycle, probed>>
    /\ UNCHANGED <<listing, call, run, slept, triggers, kind, batch, started, status, completed, retry_count,
                   pending_exports, sleeps, warm, last>>

SimProbe ==
    /\ kind = "simulate"
    /\ pc = "probe"
    /\ idx <= Len(batch)
    /\ \E o \in SimProbeObs :
          LET j == batch[idx]
              r == check_simulation_completion(o)
              updated_at == r[1]
              st == r[2]
          IN  /\ all_done' = IF NotDone(updated_at, st) THEN FALSE ELSE all_done
              /\ completed' = [completed EXCEPT ![j] = updated_at]
              /\ status' = [status EXCEPT ![j] = st]
              /\ probed' = Append(probed, j)
              /\ last' = [job |-> j, threw |-> Threw(o), updated_at |-> updated_at,
                          status |-> st]
    /\ idx' = idx + 1
    /\ UNCHANGED <<listing, call, run, slept, triggers, kind, batch, pc, started, retry_count, pending_exports, cycle,
                   sleeps, warm>>

(* if all_done: break; otherwise retry_count += 1 and on to the sleep *)
SimEndCycle ==
    /\ kind = "simulate"
    /\ pc = "probe"
    /\ idx > Len(batch)
    /\ IF all_done
       THEN pc' = "mark" /\ retry_count' = retry_count
       ELSE pc' = "sleep" /\ retry_count' = retry_count + 1
    /\ UNCHANGED <<listing, call, run, slept, triggers, kind, batch, idx, started, status, completed, all_done,
                   pending_exports, cycle, sleeps, warm, probed, last>>

(* time.sleep(300) *)
SimSleep ==
    /\ kind = "simulate"
    /\ pc = "sleep"
    /\ sleeps' = sleeps + 1
    /\ pc' = "loop"
    /\ slept' = slept + RetrySeconds(kind)
    /\ UNCHANGED <<listing, call, run, triggers, kind, batch, idx, started, status, completed, retry_count,
                   all_done, pending_exports, cycle, warm, probed, last>>

(* after the loop: if not all_done, whatever is not Passed or Failed *)
(* becomes Incomplete; then the function returns                     *)
SimMark ==
    /\ kind = "simulate"
    /\ pc = "mark"
    /\ status' = IF ~all_done
                 THEN [j \in DOMAIN status |-> SimMarkCell(status[j])]
                 ELSE status
    /\ pc' = "done"
    /\ UNCHANGED <<listing, call, run, slept, triggers, kind, batch, idx, started, completed, retry_count, all_done,
                   pending_exports, cycle, sleeps, warm, probed, last>>

----------------------------------------------------------------------------
(* run_export_rtl *)

(* one call of trigger_export; the key is recorded only if it is truthy *)
ExpTrigger ==
    /\ kind = "export"
    /\ pc = "trigger"
    /\ idx <= Len(batch)
    /\ \E o \in ExportTriggerObs :
          LET created_at == trigger_export(o)
          IN  started' = IF Truthy(created_at)
                         THEN [started EXCEPT ![batch[idx]] = created_at]
                         ELSE started
    /\ idx' = idx + 1
    /\ triggers' = Append(triggers, batch[idx])
    /\ UNCHANGED <<listing, call, run, slept, kind, batch, pc, status, completed, retry_count, all_done,
                   pending_exports, cycle, sleeps, warm, probed, last>>

ExpTriggersDone ==
    /\ kind = "export"
    /\ pc = "trigger"
    /\ idx > Len(batch)
    /\ pc' = "warmup"
    /\ UNCHANGED <<listing, call, run, slept, triggers, kind, batch, idx, started, status, completed, retry_count,
                   all_done, pending_exports, cycle, sleeps, warm, probed, last>>

(* time.sleep(1200) *)
ExpWarmup ==
    /\ kind = "export"
    /\ pc = "warmup"
    /\ warm' = warm + 1
    /\ pc' = "loop"
    /\ slept' = slept + WarmupSeconds(kind)
    /\ UNCHANGED <<listing, call, run, triggers, kind, batch, idx, started, status, completed, retry_count,
                   all_done, pending_exports, cycle, sleeps, probed, last>>

(* variant: an export seen Processing is taken as settled *)
IsPendingExport_NotProcessing(j) ==
    started[j] # "" /\ status[j] \notin {"Passed", "Failed", "Processing"}

IsPendingExport(j) == started[j] # "" /\ status[j] \notin {"Passed", "Failed"}

(* while retry_count < max_retries: the count goes up first, then the      *)
(* pending exports are collected; none left: break                         *)
ExpLoopHead ==
    /\ kind = "export"
    /\ pc = "loop"
    /\ IF retry_count < max_retries
       THEN LET pending == SelectSeq(batch, IsPendingExport)
            IN  /\ all_done' = TRUE
                /\ retry_count' = retry_count + 1
                /\ pending_exports' = pending
                /\ IF pending = <<>>
                   THEN pc' = "done" /\ UNCHANGED <<idx, cycle, probed>>
                   ELSE pc' = "probe" /\ idx' = 1 /\ cycle' = cycle + 1
                        /\ probed' = <<>>
       ELSE /\ pc' = "done"
            /\ UNCHANGED <<all_done, retry_count, pending_exports, idx, cycle, probed>>
    /\ UNCHANGED <<listing, call, run, slept, triggers, kind, batch, started, status, completed, sleeps, warm, last>>

(* variant: the probe's status is written to the whole column of the type *)
ExpProbe_WholeColumn ==
    /\ kind = "export"
    /\ pc = "probe"
    /\ idx <= Len(pending_exports)
    /\ \E o \in ExportProbeObs :
          LET j == pending_exports[idx]
              st == check_export_completion(o)
          IN  /\ status' = [k \in DOMAIN status |-> IF k[2] = j[2] THEN st ELSE status[k]]
              /\ all_done' = IF ExportNotDone(st) THEN FALSE ELSE all_done
              /\ probed' = Append(probed, j)
              /\ last' = [job |-> j, threw |-> Threw(o), updated_at |-> "", status |-> st]
    /\ idx' = idx + 1
    /\ UNCHANGED <<listing, call, run, slept, triggers, kind, batch, pc, started, completed, retry_count,
                   pending_exports, cycle, sleeps, warm>>

(* one iteration over pending_exports *)
ExpProbe ==
    /\ kind = "export"
    /\ pc = "probe"
    /\ idx <= Len(pending_exports)
    /\ \E o \in ExportProbeObs :
          LET j == pending_exports[idx]
              st == check_export_completion(o)
          IN  /\ status' = [status EXCEPT ![j] = st]
              /\ all_done' = IF ExportNotDone(st) THEN FALSE ELSE all_done
              /\ probed' = Append(probed, j)
              /\ last' = [job |-> j, threw |-> Threw(o), updated_at |-> "", status |-> st]
    /\ idx' = idx + 1
    /\ UNCHANGED <<listing, call, run, slept, triggers, kind, batch, pc, started, completed, retry_count,
                   pending_exports, cycle, sleeps, warm>>

(* after the pass: all done: break; budget used up: mark and break; *)
(* otherwise on to the sleep                                        *)
ExpEndCycle ==
    /\ kind = "export"
    /\ pc = "probe"
    /\ idx > Len(pending_exports)
    /\ IF all_done
       THEN pc' = "done" /\ status' = status
       ELSE IF retry_count >= max_retries
       THEN /\ status' = [j \in DOMAIN status |-> ExportMarkCell(status[j])]
            /\ pc' = "done"
       ELSE pc' = "sleep" /\ status' = status
    /\ UNCHANGED <<listing, call, run, slept, triggers, kind, batch, idx, started, completed, retry_count, all_done,
                   pending_exports, cycle, sleeps, warm, probed, last>>

(* time.sleep(300) *)
ExpSleep ==
    /\ kind = "export"
    /\ pc = "sleep"
    /\ sleeps' = sleeps + 1
    /\ pc' = "loop"
    /\ slept' = slept + RetrySeconds(kind)
    /\ UNCHANGED <<listing, call, run, triggers, kind, batch, idx, started, status, completed, retry_count,
                   all_done, pending_exports, cycle, warm, probed, last>>

----------------------------------------------------------------------------
Next ==
    \/ GenPageRaises \/ GenTrigger \/ GenTriggersDone \/ GenLoopHead \/ GenProbe \/ GenEndCycle
    \/ GenSleep
    \/ SimPageRaises \/ SimTrigger \/ SimTriggersDone \/ SimWarmup \/ SimLoopHead \/ SimProbe
    \/ SimEndCycle \/ SimSleep \/ SimMark
    \/ ExpTrigger \/ ExpTriggersDone \/ ExpWarmup \/ ExpLoopHead \/ ExpProbe
    \/ ExpEndCycle \/ ExpSleep

Spec == Init /\ [][Next]_vars

StatusValues == {"", "Pending", "Processing", "Passed", "Failed", "Incomplete"}

TypeOK ==
    /\ kind \in Kinds
    /\ pc \in {"trigger", "warmup", "loop", "probe", "sleep", "mark", "done", "raised"}
    /\ \A j \in Jobs : /\ started[j] \in Texts
                       /\ status[j] \in StatusValues
                       /\ completed[j] \in Texts
    /\ retry_count \in 0..max_retries
    /\ all_done \in BOOLEAN
    /\ cycle \in 0..MaxGenCycles


----------------------------------------------------------------------------
(* The triggers, the probers and their helpers called on their own: one    *)
(* behaviour is one call, on an input drawn from what the page can show.   *)

(* no tracker is running *)
TrackerIdle ==
    /\ kind = "" /\ batch = <<>> /\ pc = "" /\ idx = 1
    /\ started = <<>> /\ status = <<>> /\ completed = <<>>
    /\ retry_count = 0 /\ all_done = FALSE /\ pending_exports = <<>>
    /\ cycle = 0 /\ sleeps = 0 /\ warm = 0 /\ probed = <<>> /\ last = NoProbe
    /\ slept = 0 /\ triggers = <<>> /\ listing = <<>>

trackerVars ==
    <<kind, batch, pc, idx, started, status, completed, retry_count, all_done,
      pending_exports, cycle, sleeps, warm, probed, last, slept, triggers, listing>>

(* what the generate prober's row can show: the icons are looked up in the *)
(* whole row, so a progress icon may be there as well                      *)
GenRowViewsAnyIcon ==
    {v \in RowViews : (~v.updated_cell => v.updated_text = "") /\ v.status_cell = v.row}

(* timestamp texts of the export listing *)
ListingStamps == {"t1", "t2"}
ListingTexts == ListingStamps \cup {""}

RECURSIVE SeqsUpTo(_, _)
SeqsUpTo(S, n) ==
    IF n = 0 THEN {<<>>}
    ELSE LET shorter == SeqsUpTo(S, n - 1)
         IN  shorter \cup {Append(q, x) : q \in {r \in shorter : Len(r) = n - 1}, x \in S}

(* a row of the export listing: its createdAt text (stripped) and what its *)
(* status cell shows; rows without a createdAt cell are passed over by the *)
(* prober and left out                                                     *)
ExportListingRows ==
    {r \in [created_at : ListingTexts, status_cell : BOOLEAN, success : BOOLEAN,
            failed : BOOLEAN, progress : BOOLEAN] :
        ~r.status_cell => ~(r.success \/ r.failed \/ r.progress)}

(* variant: the first row of the listing, whatever its createdAt *)
target_row_First(all_rows, created_at_val) ==
    IF all_rows = <<>> THEN NoRow
    ELSE [row |-> TRUE, updated_cell |-> FALSE, updated_text |-> "",
          status_cell |-> all_rows[1].status_cell, success |-> all_rows[1].success,
          failed |-> all_rows[1].failed, progress |-> all_rows[1].progress]

(* for r in all_rows: the first row whose createdAt text is the key *)
target_row(all_rows, created_at_val) ==
    LET hits == {i \in 1..Len(all_rows) : all_rows[i].created_at = created_at_val}
    IN  IF hits = {} THEN NoRow
        ELSE LET r == all_rows[CHOOSE i \in hits : \A k \in hits : i <= k]
             IN  [row |-> TRUE, updated_cell |-> FALSE, updated_text |-> "",
                  status_cell |-> r.status_cell, success |-> r.success,
                  failed |-> r.failed, progress |-> r.progress]

(* one call of check_export_completion: the listing and the key it is given *)
ExportListingObs ==
    {[throws |-> t, rows_timeout |-> FALSE, view |-> NoRow, all_rows |-> <<>>,
      created_at_val |-> k] : t \in ExportProbeSteps, k \in ListingStamps}
    \cup {[throws |-> "none", rows_timeout |-> FALSE, view |-> target_row(rows, k),
            all_rows |-> rows, created_at_val |-> k] :
             rows \in SeqsUpTo(ExportListingRows, MaxRows), k \in ListingStamps}

ProberNames ==
    {"check_generate_completion", "check_simulation_completion", "check_export_completion"}

ProberCalls ==
    {[fn |-> "check_generate_completion", input |-> o] :
        o \in ProbeObs(GenProbeSteps, GenRowViewsAnyIcon, BOOLEAN)}
    \cup {[fn |-> "check_simulation_completion", input |-> o] : o \in SimProbeObs}
    \cup {[fn |-> "check_export_completion", input |-> o] : o \in ExportListingObs}

(* The listing after the export action: its rows in page order, each with  *)
(* the second (counted from the call of wait_for_new_row) from which the   *)
(* page shows it.  A row listed before the action is there from second 0.  *)
ArrivalTimes == {0, 1, timeout - 1, timeout}
Arrivals == SeqsUpTo([created_at : ListingTexts, at : ArrivalTimes], MaxRows)

(* wait_for_new_row looks at the page once a second as long as less than   *)
(* timeout seconds have passed: the rows it meets, look after look          *)
RECURSIVE PolledRows(_, _)
PolledRows(arrivals, t) ==
    IF t >= timeout THEN <<>>
    ELSE LET shown == SelectSeq(arrivals, LAMBDA a : a.at <= t)
         IN  [i \in 1..Len(shown) |-> shown[i].created_at] \o PolledRows(arrivals, t + 1)

TriggerExportCalls ==
    {[fn |-> "trigger_export", input |-> [throws |-> s, before |-> <<>>, arrivals |-> <<>>]] :
        s \in ExportTriggerSteps}
    \cup {[fn |-> "trigger_export", input |-> [throws |-> "none", before |-> b, arrivals |-> a]] :
             b \in SeqsUpTo(ListingTexts, MaxRows), a \in Arrivals}

(* The three checkboxes of the export dialog and what the if/elif chain of *)
(* trigger_export does to them; flags is their state left by the page.     *)
Labels == {"Encrypted", "Obfuscated", "Clean"}
FlagSettings == [Labels -> BOOLEAN]

(* page.get_by_label(label).check() and .uncheck() *)
Check(flags, label) == [flags EXCEPT ![label] = TRUE]
Uncheck(flags, label) == [flags EXCEPT ![label] = FALSE]

(* variant: 'Enc+Obs' leaves the Clean checkbox as it finds it *)
select_export_type_LeavesClean(export_type, flags) ==
    IF export_type = "Encrypted"
    THEN Uncheck(Uncheck(Check(flags, "Encrypted"), "Obfuscated"), "Clean")
    ELSE IF export_type = "Obfuscated"
    THEN Uncheck(Check(Uncheck(flags, "Encrypted"), "Obfuscated"), "Clean")
    ELSE IF export_type = "Clean"
    THEN Check(Uncheck(Uncheck(flags, "Encrypted"), "Obfuscated"), "Clean")
    ELSE IF export_type = "All 3"
    THEN Check(Check(Check(flags, "Encrypted"), "Obfuscated"), "Clean")
    ELSE IF export_type = "Enc+Clean"
    THEN Check(Uncheck(Check(flags, "Encrypted"), "Obfuscated"), "Clean")
    ELSE IF export_type = "Obs+Clean"
    THEN Check(Check(Uncheck(flags, "Encrypted"), "Obfuscated"), "Clean")
    ELSE IF export_type = "Enc+Obs"
    THEN Check(Check(flags, "Encrypted"), "Obfuscated")
    ELSE flags

select_export_type(export_type, flags) ==
    IF export_type = "Encrypted"
    THEN Uncheck(Uncheck(Check(flags, "Encrypted"), "Obfuscated"), "Clean")
    ELSE IF export_type = "Obfuscated"
    THEN Uncheck(Check(Uncheck(flags, "Encrypted"), "Obfuscated"), "Clean")
    ELSE IF export_type = "Clean"
    THEN Check(Uncheck(Uncheck(flags, "Encrypted"), "Obfuscated"), "Clean")
    ELSE IF export_type = "All 3"
    THEN Check(Check(Check(flags, "Encrypted"), "Obfuscated"), "Clean")
    ELSE IF export_type = "Enc+Clean"
    THEN Check(Uncheck(Check(flags, "Encrypted"), "Obfuscated"), "Clean")
    ELSE IF export_type = "Obs+Clean"
    THEN Check(Check(Uncheck(flags, "Encrypted"), "Obfuscated"), "Clean")
    ELSE IF export_type = "Enc+Obs"
    THEN Uncheck(Check(Check(flags, "Encrypted"), "Obfuscated"), "Clean")
    ELSE flags

SelectCalls ==
    {[fn |-> "select_export_type", input |-> [export_type |-> export_types[i], flags |-> f]] :
        i \in 1..Len(export_types), f \in FlagSettings}

Calls == ProberCalls \cup TriggerExportCalls \cup SelectCalls

CallInit ==
    /\ TrackerIdle
    /\ run = NoRun
    /\ \E c \in Calls :
          call = [fn |-> c.fn, input |-> c.input, returned |-> FALSE, result |-> <<>>]

CallCheckGenerate ==
    /\ call.fn = "check_generate_completion"
    /\ ~call.returned
    /\ call' = [call EXCEPT !.returned = TRUE, !.result = check_generate_completion(call.input)]
    /\ UNCHANGED <<trackerVars, run>>

CallCheckSimulation ==
    /\ call.fn = "check_simulation_completion"
    /\ ~call.returned
    /\ call' = [call EXCEPT !.returned = TRUE, !.result = check_simulation_completion(call.input)]
    /\ UNCHANGED <<trackerVars, run>>

CallCheckExport ==
    /\ call.fn = "check_export_completion"
    /\ ~call.returned
    /\ call' = [call EXCEPT !.returned = TRUE, !.result = check_export_completion(call.input)]
    /\ UNCHANGED <<trackerVars, run>>

CallTriggerExport ==
    /\ call.fn = "trigger_export"
    /\ ~call.returned
    /\ call' = [call EXCEPT !.returned = TRUE,
                            !.result = trigger_export(
                                [throws |-> call.input.throws,
                                 before |-> call.input.before,
                                 after |-> PolledRows(call.input.arrivals, 0)])]
    /\ UNCHANGED <<trackerVars, run>>

CallSelectExportType ==
    /\ call.fn = "select_export_type"
    /\ ~call.returned
    /\ call' = [call EXCEPT !.returned = TRUE,
                            !.result = select_export_type(call.input.export_type,
                                                          call.input.flags)]
    /\ UNCHANGED <<trackerVars, run>>

CallNext ==
    \/ CallCheckGenerate \/ CallCheckSimulation \/ CallCheckExport
    \/ CallTriggerExport \/ CallSelectExportType

SpecCalls == CallInit /\ [][CallNext]_vars

----------------------------------------------------------------------------
(* The first pass of run_export_rtl over the export types of one project,  *)
(* with the project's export listing kept from call to call: the listing   *)
(* only gains rows, at its top or at its end, while a trigger runs.        *)

ListingInit ==
    \E m \in 1..NumTypes, rows \in SeqsUpTo(ListingTexts, 1) :
        /\ kind = "export"
        /\ batch = Batch("export", 1, m)
        /\ pc = "trigger"
        /\ idx = 1
        /\ started = [j \in {Batch("export", 1, m)[i] : i \in 1..m} |-> ""]
        /\ status = [j \in {Batch("export", 1, m)[i] : i \in 1..m} |-> ""]
        /\ completed = [j \in {Batch("export", 1, m)[i] : i \in 1..m} |-> ""]
        /\ retry_count = 0
        /\ all_done = FALSE
        /\ pending_exports = <<>>
        /\ cycle = 0
        /\ sleeps = 0
        /\ warm = 0
        /\ probed = <<>>
        /\ last = NoProbe
        /\ slept = 0
        /\ triggers = <<>>
        /\ listing = rows
        /\ call = NoCall
        /\ run = NoRun

(* one call of trigger_export: the snapshot is the listing as it is, the   *)
(* rows met by wait_for_new_row are the listing with the rows gained       *)
ListedTrigger ==
    /\ kind = "export"
    /\ pc = "trigger"
    /\ idx <= Len(batch)
    /\ \E t \in ExportTriggerSteps \cup {"none"}, gained \in SeqsUpTo(ListingTexts, MaxGain),
          top \in BOOLEAN :
          LET after == IF top THEN gained \o listing ELSE listing \o gained
              created_at == trigger_export([throws |-> t, before |-> listing,
                                            after |-> after])
          IN  /\ listing' = after
              /\ started' = IF Truthy(created_at)
                             THEN [started EXCEPT ![batch[idx]] = created_at]
                             ELSE started
    /\ triggers' = Append(triggers, batch[idx])
    /\ idx' = idx + 1
    /\ UNCHANGED <<call, run, slept, kind, batch, pc, status, completed, retry_count,
                   all_done, pending_exports, cycle, sleeps, warm, probed, last>>

(* the first pass is over *)
ListedTriggersDone ==
    /\ kind = "export"
    /\ pc = "trigger"
    /\ idx > Len(batch)
    /\ pc' = "warmup"
    /\ UNCHANGED <<listing, call, run, slept, triggers, kind, batch, idx, started, status,
                   completed, retry_count, all_done, pending_exports, cycle, sleeps, warm,
                   probed, last>>

ListingNext == ListedTrigger \/ ListedTriggersDone

SpecListing == ListingInit /\ [][ListingNext]_vars

----------------------------------------------------------------------------
(* main() of main_runner.py: one behaviour is one run of the script.  A    *)
(* phase is one step: the tracker it calls returns its table, or an        *)
(* exception leaves the tracker.  run.pc is the position in main() and in  *)
(* run_all_tests.                                                          *)

(* "all": no option given *)
Modes ==
    {"all", "generate_only", "simulate_only", "export_only", "skip_generate",
     "skip_simulate", "skip_export"}

Phases == {"generate", "simulate", "export"}

(* the phase a mode begins with, once logged in *)
FirstPhase(mode) ==
    IF mode \in {"simulate_only", "skip_generate"} THEN "simulate"
    ELSE IF mode = "export_only" THEN "export"
    ELSE "generate"

(* a runner that gives up at the first phase that returned False *)
AfterPhase_StopsOnFailure(mode, phase, ok) ==
    IF mode = "all"
    THEN (IF ~ok THEN "decide"
          ELSE IF phase = "generate" THEN "sleep_before_simulate"
          ELSE IF phase = "simulate" THEN "sleep_before_export"
          ELSE "decide")
    ELSE IF mode = "skip_generate" /\ phase = "simulate" /\ ok THEN "export"
    ELSE IF mode = "skip_simulate" /\ phase = "generate" /\ ok THEN "export"
    ELSE IF mode = "skip_export" /\ phase = "generate" /\ ok THEN "simulate"
    ELSE "save"

(* where main() goes when the phase has returned ok (True or False) *)
AfterPhase(mode, phase, ok) ==
    IF mode = "all"
    THEN (IF phase = "generate" THEN "sleep_before_simulate"
          ELSE IF phase = "simulate" THEN "sleep_before_export"
          ELSE "decide")
    ELSE IF mode = "skip_generate" /\ phase = "simulate" /\ ok THEN "export"
    ELSE IF mode = "skip_simulate" /\ phase = "generate" /\ ok THEN "export"
    ELSE IF mode = "skip_export" /\ phase = "generate" /\ ok THEN "simulate"
    ELSE "save"

(* the value a phase function returned, as Python prints it *)
Str(ok) == IF ok THEN "True" ELSE "False"

RunnerInit ==
    /\ TrackerIdle
    /\ call = NoCall
    /\ \E m \in Modes :
          run = [pc |-> "login", mode |-> m,
                 generate_df |-> None, simulate_df |-> None, export_df |-> None,
                 generate_success |-> "unset", simulate_success |-> "unset",
                 export_success |-> "unset",
                 success |-> FALSE, interrupted |-> FALSE, interrupted_at |-> "",
                 raised |-> FALSE, login |-> "", without_cam |-> None,
                 trackers |-> <<>>,
                 phases |-> <<>>, waits |-> 0, saves |-> 0, files |-> 0, closes |-> 0,
                 exit_code |-> -1]

(* a login that hands back the page although a login step raised *)
MainLogin_ProceedsOnFailure ==
    /\ run.pc = "login"
    /\ \E o \in {"ok", "failed", "launch_raises"} :
          run' = IF o \in {"ok", "failed"}
                 THEN [run EXCEPT !.pc = FirstPhase(run.mode), !.login = o]
                 ELSE [run EXCEPT !.pc = "summary", !.raised = TRUE, !.login = o]
    /\ UNCHANGED <<trackerVars, call>>

(* login_to_inoculator: logged in; or a login step raised, the browser is  *)
(* closed and (None, None) returned; or the browser could not be launched  *)
(* and the exception reaches main()                                        *)
MainLogin ==
    /\ run.pc = "login"
    /\ \E o \in {"ok", "failed", "launch_raises"} :
          run' = IF o = "ok"
                 THEN [run EXCEPT !.pc = FirstPhase(run.mode), !.login = o]
                 ELSE IF o = "failed"
                 THEN [run EXCEPT !.pc = "summary", !.closes = @ + 1, !.login = o]
                 ELSE [run EXCEPT !.pc = "summary", !.raised = TRUE, !.login = o]
    /\ UNCHANGED <<trackerVars, call>>

(* InoculatorMasterRunner.run_generate_rtl, both generate trackers in one   *)
(* try: first generate_rtl_func, whose table is held in a local variable;  *)
(* if it raises, the 'Error' table is recorded and False returned          *)
MainGenerate ==
    /\ run.pc = "generate"
    /\ \E ok \in BOOLEAN :
          run' = IF ok
                 THEN [run EXCEPT !.without_cam = "table",
                                  !.trackers = Append(@, "generate_rtl_func"),
                                  !.phases = Append(@, "generate"),
                                  !.pc = "generate_cam"]
                 ELSE [run EXCEPT !.generate_df = "Error",
                                  !.generate_success = "False",
                                  !.success = IF run.mode = "all" THEN @ ELSE FALSE,
                                  !.trackers = Append(@, "generate_rtl_func"),
                                  !.phases = Append(@, "generate"),
                                  !.pc = AfterPhase(run.mode, "generate", FALSE)]
    /\ UNCHANGED <<trackerVars, call>>

(* a runner that keeps the table of the pass without CAM *)
GenerateErrorTable_KeepsResults(without_cam) == without_cam

(* the table run_generate_rtl records when generate_rtl_CAM_func raised:   *)
(* STATUS and STATUS CAM are both 'Error'                                  *)
GenerateErrorTable(without_cam) == "Error"

(* run_generate_rtl, second half: generate_rtl_CAM_func; the two tables    *)
(* are merged and True returned, or the 'Error' table is recorded          *)
MainGenerateCAM ==
    /\ run.pc = "generate_cam"
    /\ \E ok \in BOOLEAN :
          run' = [run EXCEPT !.generate_df = IF ok THEN "table"
                                             ELSE GenerateErrorTable(run.without_cam),
                             !.generate_success = Str(ok),
                             !.success = IF run.mode = "all" THEN @ ELSE ok,
                             !.trackers = Append(@, "generate_rtl_CAM_func"),
                             !.pc = AfterPhase(run.mode, "generate", ok)]
    /\ UNCHANGED <<trackerVars, call>>

(* InoculatorMasterRunner.run_simulate_rtl *)
MainSimulate ==
    /\ run.pc = "simulate"
    /\ \E ok \in BOOLEAN :
          run' = [run EXCEPT !.simulate_df = IF ok THEN "table" ELSE "Error",
                             !.simulate_success = Str(ok),
                             !.success = IF run.mode = "all" THEN @ ELSE ok,
                             !.trackers = Append(@, "simulate_rtl_func"),
                             !.phases = Append(@, "simulate"),
                             !.pc = AfterPhase(run.mode, "simulate", ok)]
    /\ UNCHANGED <<trackerVars, call>>

(* InoculatorMasterRunner.run_export_rtl *)
MainExport ==
    /\ run.pc = "export"
    /\ \E ok \in BOOLEAN :
          run' = [run EXCEPT !.export_df = IF ok THEN "table" ELSE "Error",
                             !.export_success = Str(ok),
                             !.success = IF run.mode = "all" THEN @ ELSE ok,
                             !.trackers = Append(@, "export_rtl_func"),
                             !.phases = Append(@, "export"),
                             !.pc = AfterPhase(run.mode, "export", ok)]
    /\ UNCHANGED <<trackerVars, call>>

(* run_all_tests: time.sleep(120) between generate and simulate *)
MainSleepBeforeSimulate ==
    /\ run.pc = "sleep_before_simulate"
    /\ run' = [run EXCEPT !.waits = @ + 1, !.pc = "simulate"]
    /\ UNCHANGED <<trackerVars, call>>

(* run_all_tests: time.sleep(120) between simulate and export *)
MainSleepBeforeExport ==
    /\ run.pc = "sleep_before_export"
    /\ run' = [run EXCEPT !.waits = @ + 1, !.pc = "export"]
    /\ UNCHANGED <<trackerVars, call>>

(* run_all_tests: if generate_success or simulate_success or export_success *)
MainDecide ==
    /\ run.pc = "decide"
    /\ run' = [run EXCEPT !.success = \/ run.generate_success = "True"
                                      \/ run.simulate_success = "True"
                                      \/ run.export_success = "True",
                          !.pc = "save"]
    /\ UNCHANGED <<trackerVars, call>>

(* run_all_tests without its finally clause *)
MainInterrupt_NoFinally ==
    /\ run.pc \in {"login", "generate_cam", "sleep_before_simulate",
                   "sleep_before_export"} \cup Phases
    /\ run' = [run EXCEPT !.interrupted = TRUE,
                          !.interrupted_at = IF run.pc = "generate_cam" THEN "generate"
                                             ELSE run.pc,
                          !.pc = "summary"]
    /\ UNCHANGED <<trackerVars, call>>

(* KeyboardInterrupt while logging in, in a phase or in a sleep between    *)
(* phases: no except Exception catches it; in run_all_tests the finally    *)
(* clause runs, in the other modes main()'s handler is next                *)
MainInterrupt ==
    /\ run.pc \in {"login", "generate_cam", "sleep_before_simulate",
                   "sleep_before_export"} \cup Phases
    /\ run' = [run EXCEPT !.interrupted = TRUE,
                          !.interrupted_at = IF run.pc = "generate_cam" THEN "generate"
                                             ELSE run.pc,
                          !.pc = IF run.mode = "all" /\ run.pc # "login"
                                 THEN "save" ELSE "summary"]
    /\ UNCHANGED <<trackerVars, call>>

(* save_results_to_excel: the file is written, or the exception is caught *)
(* inside and None returned                                               *)
MainSave ==
    /\ run.pc = "save"
    /\ \E written \in BOOLEAN :
          run' = [run EXCEPT !.saves = @ + 1,
                             !.files = IF written THEN @ + 1 ELSE @,
                             !.pc = "close"]
    /\ UNCHANGED <<trackerVars, call>>

(* browser.close() *)
MainClose ==
    /\ run.pc = "close"
    /\ run' = [run EXCEPT !.closes = @ + 1, !.pc = "summary"]
    /\ UNCHANGED <<trackerVars, call>>

(* runner.print_summary() and sys.exit *)
MainSummary ==
    /\ run.pc = "summary"
    /\ run' = [run EXCEPT !.exit_code = IF run.success /\ ~run.interrupted /\ ~run.raised
                                        THEN 0 ELSE 1,
                          !.pc = "exit"]
    /\ UNCHANGED <<trackerVars, call>>

RunnerNext ==
    \/ MainLogin \/ MainGenerate \/ MainGenerateCAM \/ MainSimulate \/ MainExport
    \/ MainSleepBeforeSimulate \/ MainSleepBeforeExport \/ MainDecide
    \/ MainInterrupt \/ MainSave \/ MainClose \/ MainSummary

SpecRunner == RunnerInit /\ [][RunnerNext]_vars

----------------------------------------------------------------------------
(* Vocabulary of the properties *)

(* the sequence the running probe pass iterates over *)
Todo == IF kind = "export" THEN pending_exports ELSE batch

(* the probe pass has made its last call; the test of all_done comes next *)
EndOfCycle == pc = "probe" /\ idx > Len(Todo)

Untriggered == ""

----------------------------------------------------------------------------
(* C1: when a tracker returns, every Job's status is Passed, Failed,       *)
(* Incomplete or still the initial empty status; none is Pending or        *)
(* Processing.                                                             *)
C1_FinalStatuses ==
    pc = "done" =>
        \A j \in Jobs : status[j] \in {"Passed", "Failed", "Incomplete", Untriggered}

(* an export run that returned with all four kinds of final status but Failed *)
C1_Witness ==
    /\ pc = "done"
    /\ kind = "export"
    /\ \E j \in Jobs : status[j] = "Incomplete"
    /\ \E j \in Jobs : status[j] = "Passed"
    /\ \E j \in Jobs : status[j] = Untriggered

----------------------------------------------------------------------------
(* C2: every tracker runs at most max_retries (6) probe cycles.            *)
(* Stated for all four kinds; run_generate_rtl and                         *)
(* run_generate_rtl_with_CAM loop "while True" and start a 7th cycle.      *)
C2_AtMostBudgetCycles == cycle <= max_retries

----------------------------------------------------------------------------
(* C3: a triggered Job that never reports Passed or Failed is probed in    *)
(* exactly max_retries cycles, then is Incomplete, and is not probed       *)
(* again: no probe happens in a cycle after the 6th, a status is           *)
(* Incomplete only after the 6th cycle, and after the 6th cycle's sleep    *)
(* no triggered Job goes on as Pending or Processing into a further cycle. *)
C3_BudgetExact ==
    /\ \A i \in 1..Len(probed) : started[probed[i]] # "" => cycle <= max_retries
    /\ \A j \in Jobs : status[j] = "Incomplete" => cycle = max_retries
    /\ pc = "done" =>
          \A j \in Jobs : started[j] # "" => status[j] \notin {"Pending", "Processing"}

----------------------------------------------------------------------------
(* C4: terminal statuses are sticky: the status of a triggered Job that is *)
(* Passed, Failed or Incomplete never changes in any later step of the     *)
(* tracker.                                                                *)
C4_TerminalSticky ==
    [][\A j \in Jobs : (started[j] # "" /\ status[j] \in Terminal)
                           => status'[j] = status[j]]_vars

----------------------------------------------------------------------------
(* C5: a Job whose trigger returned no correlation key is never probed.    *)
C5_NoKeyNeverProbed ==
    \A i \in 1..Len(probed) : started[probed[i]] # ""

----------------------------------------------------------------------------
(* C6: a Job whose trigger returned no correlation key keeps the initial   *)
(* empty status, up to and including the tracker's return.                 *)
C6_NoKeyStaysUntriggered ==
    \A j \in Jobs : started[j] = "" => status[j] = Untriggered

----------------------------------------------------------------------------
AllReportedDone ==
    \A j \in Jobs : /\ status[j] \in Finished
                    /\ kind # "export" => completed[j] # ""

----------------------------------------------------------------------------
(* C8: a status becomes Incomplete only in a step taken with the retry     *)
(* budget used up (retry_count = max_retries) and only from Pending or     *)
(* Processing; in that step every status that is Pending or Processing     *)
(* becomes Incomplete; no probe ever returns Incomplete.                   *)
C8_IncompleteAtExhaustion ==
    [][/\ \A j \in Jobs :
             (status'[j] = "Incomplete" /\ status[j] # "Incomplete")
                => /\ retry_count = max_retries
                   /\ status[j] \in {"Pending", "Processing"}
                   /\ \A k \in Jobs : status[k] \in {"Pending", "Processing"}
                                         => status'[k] = "Incomplete"
       /\ last'.status # "Incomplete"]_vars

(* a simulate run that used up the budget: one Job marked, one left Passed *)
C8_Witness ==
    /\ pc = "done"
    /\ kind = "simulate"
    /\ retry_count = max_retries
    /\ \E j \in Jobs : status[j] = "Incomplete"
    /\ \E j \in Jobs : status[j] = "Passed"

----------------------------------------------------------------------------
(* C9: the 'completed on' of a triggered Job is non-empty only while its   *)
(* status is Passed, Failed or Incomplete.                                 *)
C9_CompletedOnlyTerminal ==
    \A j \in Jobs : (started[j] # "" /\ completed[j] # "") => status[j] \in Terminal

----------------------------------------------------------------------------
(* C10 as stated: whenever any call inside the status check of a triggered *)
(* Job raised, the probe returned Failed with an empty timestamp.          *)
C10_AnyThrowFailed_AsStated ==
    (last.threw # "none" /\ started[last.job] # "")
        => (last.status = "Failed" /\ last.updated_at = "")

(* C10 amended: whenever a call raised into the prober's own except        *)
(* clause, the probe returned Failed with an empty timestamp; the one      *)
(* call whose failure is caught before that, the generate prober's wait    *)
(* for the rows, occurs in the generate probers only.                      *)
C10_ProbeFailure ==
    /\ last.threw = "outer" => (last.status = "Failed" /\ last.updated_at = "")
    /\ last.threw = "swallowed" => kind \in GenKinds

(* an export probe that raised *)
C10_Witness ==
    /\ kind = "export"
    /\ last.threw = "outer"
    /\ last.status = "Failed"
    /\ status[last.job] = "Failed"

----------------------------------------------------------------------------
(* the latest probe call is the one that just returned in the running pass *)
JustProbed ==
    /\ pc = "probe"
    /\ idx = Len(probed) + 1
    /\ probed # <<>>
    /\ probed[Len(probed)] = last.job

----------------------------------------------------------------------------
(* the trigger of Job j has been called and has returned *)
TriggerReturned(j) ==
    pc # "trigger" \/ \E i \in 1..(idx - 1) : i <= Len(batch) /\ batch[i] = j

(* C12: a Job whose trigger returned the empty or absent key (the action   *)
(* threw, or no new export row appeared) stays Untriggered and is excluded *)
(* from polling: it is not among the Jobs probed and no probe call was     *)
(* made for it.                                                            *)
C12_NoKeyExcluded ==
    \A j \in Jobs :
        (TriggerReturned(j) /\ started[j] = "")
            => /\ status[j] = Untriggered
               /\ last.job # j
               /\ \A i \in 1..Len(probed) : probed[i] # j

----------------------------------------------------------------------------
(* C13: no failure met while one project is handled propagates out of the  *)
(* tracker: the tracker is never left by an exception, so the first pass   *)
(* and every probe pass it begins reach the last Job of the batch.         *)
C13_NothingPropagates == pc # "raised"

----------------------------------------------------------------------------
(* the status a prober call returned *)
ReturnedStatus ==
    IF call.fn = "check_export_completion" THEN call.result ELSE call.result[2]

(* C14: whenever one of the three probers returns without having raised,   *)
(* its status is Pending if the entry is not found; otherwise Passed if    *)
(* the success indicator is present; otherwise Failed if the failure       *)
(* indicator is present; otherwise Processing if the progress indicator is *)
(* present; otherwise Pending.                                             *)
C14_Classification ==
    (call.fn \in ProberNames /\ call.returned /\ call.input.throws = "none")
        => LET v == call.input.view
           IN  ReturnedStatus = IF ~v.row THEN "Pending"
                                ELSE IF v.success THEN "Passed"
                                ELSE IF v.failed THEN "Failed"
                                ELSE IF v.progress THEN "Processing"
                                ELSE "Pending"

----------------------------------------------------------------------------
(* C15: while the first pass runs, no Job has been probed, nothing has     *)
(* been slept and the Jobs from the running position on are not yet        *)
(* triggered; a step of the first pass writes the key of the Job at the    *)
(* running position only; every probe call lies in a probe pass; and when  *)
(* the first probe pass begins, simulate has slept once, 900 s, export     *)
(* once, 1200 s, and the generate trackers not at all.                     *)
C15_TriggersThenWarmup ==
    [][/\ pc = "trigger" =>
             /\ cycle = 0 /\ probed = <<>> /\ last = NoProbe /\ slept = 0
             /\ \A i \in idx..Len(batch) : started[batch[i]] = ""
       /\ (pc = "trigger" /\ idx' = idx + 1) =>
             \A j \in Jobs : j # batch[idx] => started'[j] = started[j]
       /\ pc # "trigger" => started' = started
       /\ last' # last => (pc = "probe" /\ cycle >= 1)
       /\ (cycle = 0 /\ cycle' = 1) =>
             /\ pc # "trigger"
             /\ kind \in GenKinds => (warm = 0 /\ slept = 0)
             /\ kind = "simulate" => (warm = 1 /\ slept = 900)
             /\ kind = "export" => (warm = 1 /\ slept = 1200)
       /\ warm' <= 1]_vars

(* an export run in its first probe pass: two Jobs triggered, one warm-up *)
C15_Witness ==
    /\ kind = "export"
    /\ pc = "probe"
    /\ cycle = 1
    /\ Len(batch) >= 2
    /\ \A j \in Jobs : started[j] # ""
    /\ warm = 1
    /\ slept = 1200
    /\ probed # <<>>

----------------------------------------------------------------------------
(* C16: trigger_export returns either a key that is not in the snapshot of *)
(* the keys listed before the export action and that the listing showed    *)
(* before the timeout, or no key; and it returns no key only if it raised  *)
(* or every key the listing showed before the timeout is in the snapshot.  *)
C16_NewKeyOrNone ==
    (call.fn = "trigger_export" /\ call.returned)
        => LET before == call.input.before
               arrivals == call.input.arrivals
               snapshot == {before[i] : i \in 1..Len(before)}
               seen == {arrivals[i].created_at :
                           i \in {k \in 1..Len(arrivals) : arrivals[k].at < timeout}}
           IN  /\ call.result # None =>
                     (call.result \notin snapshot /\ call.result \in seen)
               /\ call.result = None =>
                     (call.input.throws # "none" \/ seen \subseteq snapshot)

(* the old key is listed first, the new one shows up in the last second *)
C16_Witness ==
    /\ call.fn = "trigger_export"
    /\ call.returned
    /\ call.input.before = <<"t1">>
    /\ call.input.arrivals = <<[created_at |-> "t1", at |-> 0],
                               [created_at |-> "t2", at |-> timeout - 1]>>
    /\ call.result = "t2"

----------------------------------------------------------------------------
(* C17: an export probe that did not raise reports Pending when no entry   *)
(* of the listing has the Job's key as its creation timestamp, and         *)
(* otherwise what the first entry with that key shows; so a status other   *)
(* than Pending is always shown by an entry with the Job's key.            *)
C17_StatusOfKeyedEntry ==
    (call.fn = "check_export_completion" /\ call.returned /\ call.input.throws = "none")
        => LET rows == call.input.all_rows
               key == call.input.created_at_val
               keyed == {i \in 1..Len(rows) : rows[i].created_at = key}
               Shows(i, st) ==
                   \/ st = "Passed" /\ rows[i].success
                   \/ st = "Failed" /\ ~rows[i].success /\ rows[i].failed
                   \/ st = "Processing" /\ ~rows[i].success /\ ~rows[i].failed
                         /\ rows[i].progress
                   \/ st = "Pending" /\ ~rows[i].success /\ ~rows[i].failed
                         /\ ~rows[i].progress
           IN  /\ keyed = {} => call.result = "Pending"
               /\ keyed # {} =>
                     \E i \in keyed : /\ \A k \in keyed : i <= k
                                      /\ Shows(i, call.result)

(* the entry with the other key shows Passed, the Job's own entry Failed *)
C17_Witness ==
    /\ call.fn = "check_export_completion"
    /\ call.returned
    /\ call.input.throws = "none"
    /\ call.input.created_at_val = "t2"
    /\ Len(call.input.all_rows) = 2
    /\ call.input.all_rows[1].created_at = "t1"
    /\ call.input.all_rows[1].success
    /\ call.input.all_rows[2].created_at = "t2"
    /\ call.input.all_rows[2].failed
    /\ call.result = "Failed"

----------------------------------------------------------------------------
(* C18: in the export tracker a probe of one Job leaves the status of      *)
(* every other Job and every createdAt key as they were, and no step after *)
(* the trigger pass changes a key.                                         *)
C18_ExportProbeFrame ==
    [][kind = "export" =>
          /\ (pc = "probe" /\ idx' = idx + 1) =>
                /\ \A j \in Jobs : j # pending_exports[idx] => status'[j] = status[j]
                /\ started' = started
                /\ last'.job = pending_exports[idx]
          /\ pc # "trigger" => started' = started]_vars

(* second pass of an export run: the probe just made reports Failed while *)
(* another Job keeps the Passed of the first pass                         *)
C18_Witness ==
    /\ kind = "export"
    /\ JustProbed
    /\ cycle = 2
    /\ status[last.job] = "Failed"
    /\ \E j \in Jobs : j # last.job /\ started[j] # "" /\ status[j] = "Passed"

----------------------------------------------------------------------------
(* C19: there are 7 export types; the flags set for a type are the same    *)
(* whatever flags the page showed before, differ from the flags set for    *)
(* every other type, have at least one flag set, and every non-empty set   *)
(* of flags is the setting of some type.                                   *)
C19_FlagSettings ==
    (call.fn = "select_export_type" /\ call.returned)
        => LET Types == {export_types[i] : i \in 1..Len(export_types)}
               Set(f) == {l \in Labels : f[l]}
           IN  /\ Len(export_types) = 7
               /\ Cardinality(Types) = 7
               /\ Set(call.result) # {}
               /\ \A t \in Types, f \in FlagSettings :
                     /\ t = call.input.export_type
                           => select_export_type(t, f) = call.result
                     /\ t # call.input.export_type
                           => select_export_type(t, f) # call.result
               /\ \A S \in (SUBSET Labels) \ {{}} :
                     \E t \in Types :
                         Set(select_export_type(t, call.input.flags)) = S

(* 'Enc+Obs' selected on a dialog that still shows the flags of 'All 3' *)
C19_Witness ==
    /\ call.fn = "select_export_type"
    /\ call.returned
    /\ call.input.export_type = "Enc+Obs"
    /\ call.input.flags = [l \in Labels |-> TRUE]
    /\ call.result = [l \in Labels |-> l # "Clean"]

----------------------------------------------------------------------------
(* C20: in the default mode and in the three skip modes, a run that was    *)
(* not interrupted and in which at least one phase returned its table      *)
(* (True) exits with code 0.                                               *)
C20_SuccessIfAnyPhase ==
    (/\ run.pc = "exit"
     /\ run.mode \in {"all", "skip_generate", "skip_simulate", "skip_export"}
     /\ ~run.interrupted
     /\ \/ run.generate_success = "True"
        \/ run.simulate_success = "True"
        \/ run.export_success = "True")
        => run.exit_code = 0

----------------------------------------------------------------------------
(* C21: in every mode, a run that was interrupted while a phase was in     *)
(* progress has called save_results_to_excel by the time it exits.         *)
C21_InterruptStillSaves ==
    (run.pc = "exit" /\ run.interrupted /\ run.interrupted_at \in Phases)
        => run.saves >= 1

----------------------------------------------------------------------------
(* C22: a run in a skip mode that was not interrupted and whose first      *)
(* phase returned has run both remaining phases, in order, by the time it  *)
(* exits: simulate then export with --skip-generate, generate then export  *)
(* with --skip-simulate, generate then simulate with --skip-export.        *)
C22_SkipModesRunBoth ==
    (run.pc = "exit" /\ ~run.interrupted /\ run.phases # <<>>)
        => /\ run.mode = "skip_generate" => run.phases = <<"simulate", "export">>
           /\ run.mode = "skip_simulate" => run.phases = <<"generate", "export">>
           /\ run.mode = "skip_export" => run.phases = <<"generate", "simulate">>

----------------------------------------------------------------------------
(* C23: the batch is in project order and, for export, in export-type      *)
(* order within a project; within a probe pass the Jobs probed so far are  *)
(* the first Jobs of the pass's list, each once; that list follows the     *)
(* batch order; and every triggered Job left out of it is already Passed   *)
(* or Failed.                                                              *)
C23_ProbedInBatchOrder ==
    LET Pos(j) == CHOOSE i \in 1..Len(batch) : batch[i] = j
        TypePos(t) == IF kind = "export"
                      THEN CHOOSE i \in 1..Len(export_types) : export_types[i] = t
                      ELSE 1
    IN  /\ \A a, b \in 1..Len(batch) :
              a < b => \/ batch[a][1] < batch[b][1]
                       \/ /\ batch[a][1] = batch[b][1]
                          /\ TypePos(batch[a][2]) < TypePos(batch[b][2])
        /\ pc = "probe" =>
              /\ probed = SubSeq(Todo, 1, idx - 1)
              /\ \A a, b \in 1..Len(Todo) : a < b => Pos(Todo[a]) < Pos(Todo[b])
              /\ \A j \in Jobs :
                    (started[j] # "" /\ \A i \in 1..Len(Todo) : Todo[i] # j)
                        => status[j] \in Finished

(* end of the second pass of an export run: two Jobs probed, in order, a *)
(* third one, Passed in the first pass, left out                         *)
C23_Witness ==
    /\ kind = "export"
    /\ EndOfCycle
    /\ cycle = 2
    /\ Len(probed) = 2
    /\ \E j \in Jobs : /\ started[j] # ""
                        /\ status[j] = "Passed"
                        /\ \A i \in 1..Len(probed) : probed[i] # j

----------------------------------------------------------------------------
(* C24: the Jobs whose trigger has been called are the first Jobs of the   *)
(* batch, each called once, and only those before the running position of  *)
(* the first pass; once the first pass is over they are the whole batch    *)
(* and stay so through every probe pass.                                   *)
C24_TriggeredOnce ==
    /\ Len(triggers) <= Len(batch)
    /\ triggers = SubSeq(batch, 1, Len(triggers))
    /\ \A a, b \in 1..Len(batch) : a # b => batch[a] # batch[b]
    /\ pc = "trigger" => Len(triggers) = idx - 1
    /\ (pc \notin {"trigger", "raised"} \/ cycle >= 1) => triggers = batch

(* a simulate run in its second probe pass: the first Job's trigger failed, *)
(* the second's returned a key, and each was called once                    *)
C24_Witness ==
    /\ kind = "simulate"
    /\ pc = "probe"
    /\ cycle = 2
    /\ Len(batch) = 2
    /\ triggers = batch
    /\ started[batch[1]] = ""
    /\ started[batch[2]] # ""

----------------------------------------------------------------------------
(* C25: a tracker that has used up its retry budget without all Jobs done  *)
(* and has left its loop has slept the inter-retry delay one time less     *)
(* than it has run probe passes.                                           *)
C25_NoSleepAfterFinalCycle ==
    (pc \in {"mark", "done"} /\ retry_count = max_retries /\ ~all_done)
        => sleeps = cycle - 1

----------------------------------------------------------------------------
(* the listing entry an export probe takes for a key: the first with it *)
EntryOf(key) == CHOOSE i \in 1..Len(listing) :
                    listing[i] = key /\ \A k \in 1..(i - 1) : listing[k] # key

(* C26: while the listing only gains rows, the non-empty keys recorded for *)
(* two export types of one project differ, each key is the creation        *)
(* timestamp of a listed entry, and the entries the probes take for the    *)
(* two keys differ.                                                        *)
C26_DistinctExportKeys ==
    \A j, k \in Jobs :
        (j # k /\ j[1] = k[1] /\ started[j] # "" /\ started[k] # "")
            => /\ started[j] # started[k]
               /\ \E i \in 1..Len(listing) : listing[i] = started[j]
               /\ \E i \in 1..Len(listing) : listing[i] = started[k]
               /\ EntryOf(started[j]) # EntryOf(started[k])

(* both export types of the project got a key, the second while the row of *)
(* the first was listed                                                    *)
C26_Witness ==
    /\ pc = "warmup"
    /\ Len(batch) = 2
    /\ started[batch[1]] = "t1"
    /\ started[batch[2]] = "t2"
    /\ listing = <<"t2", "t1">>

(* the tracker functions of the default mode, in the order of their calls *)
DefaultOrder ==
    <<"generate_rtl_func", "generate_rtl_CAM_func", "simulate_rtl_func", "export_rtl_func">>

(* the same when generate_rtl_func raised: run_generate_rtl returns there *)
DefaultOrderGenerateRaised ==
    <<"generate_rtl_func", "simulate_rtl_func", "export_rtl_func">>

IsPrefix(s, t) == Len(s) <= Len(t) /\ s = SubSeq(t, 1, Len(s))

(* C27: in the default mode the trackers are called one after the other in *)
(* the order generate without CAM, generate with CAM, simulate, export,    *)
(* and a run that was logged in and not interrupted goes through generate, *)
(* simulate and export whatever generate and simulate returned.            *)
C27_DefaultOrder ==
    (run.pc # "" /\ run.mode = "all")
        => /\ \/ IsPrefix(run.trackers, DefaultOrder)
              \/ /\ IsPrefix(run.trackers, DefaultOrderGenerateRaised)
                 /\ run.generate_success = "False"
           /\ (run.pc = "exit" /\ run.login = "ok" /\ ~run.interrupted)
                 => /\ run.phases = <<"generate", "simulate", "export">>
                    /\ run.generate_success = "True" => run.trackers = DefaultOrder

(* generate and simulate both returned False and export still ran *)
C27_Witness ==
    /\ run.pc = "exit"
    /\ run.mode = "all"
    /\ run.generate_success = "False"
    /\ run.simulate_success = "False"
    /\ run.trackers = DefaultOrder

C29_SaveAndCloseOnce ==
    (run.pc # "" /\ run.mode = "all" /\ run.login = "ok")
        => /\ run.saves <= 1
           /\ run.closes <= run.saves
           /\ run.pc \in {"summary", "exit"} => (run.saves = 1 /\ run.closes = 1)
           /\ run.pc \in {"generate_cam", "sleep_before_simulate", "sleep_before_export",
                           "decide"} \cup Phases
                 => (run.saves = 0 /\ run.closes = 0)

(* the simulate phase was interrupted; the results were saved and the      *)
(* browser closed                                                          *)
C29_Witness ==
    /\ run.pc = "exit"
    /\ run.mode = "all"
    /\ run.login = "ok"
    /\ run.interrupted
    /\ run.interrupted_at = "simulate"
    /\ run.saves = 1
    /\ run.closes = 1

====
